---------------------------- MODULE Spec2Model ----------------------------
(***************************************************************************)
(* A model of The Cue-rator (src/index.tsx): the clip-name normalizers,    *)
(* the timecode decoder, the interval aggregation of processFiles, and the *)
(* App component's status machine with its asynchronous lookups.           *)
(*                                                                         *)
(* Strings are sequences of one-character strings, so that the regular     *)
(* expressions of the source are modelled by what they match.              *)
(***************************************************************************)
EXTENDS Integers, Sequences, FiniteSets, TLC

(***************************************************************************)
(* Characters and the character classes of the regular expressions.        *)
(***************************************************************************)
UpperChars ==
    <<"A","B","C","D","E","F","G","H","I","J","K","L","M","N","O","P","Q","R","S","T","U","V","W","X","Y","Z">>

LowerChars ==
    <<"a","b","c","d","e","f","g","h","i","j","k","l","m","n","o","p","q","r","s","t","u","v","w","x","y","z">>

DigitChars == {"0","1","2","3","4","5","6","7","8","9"}

\* \s, restricted to the whitespace the modelled names contain
WhitespaceChars == {" "}

\* String.prototype.toLowerCase / the i flag, on one character
Lower(c) ==
    IF \E k \in 1..26 : UpperChars[k] = c
    THEN LowerChars[CHOOSE k \in 1..26 : UpperChars[k] = c]
    ELSE c

LowerStr(s) == [k \in 1..Len(s) |-> Lower(s[k])]

IsDigit(c) == c \in DigitChars

IsAlpha(c) == \E k \in 1..26 : LowerChars[k] = Lower(c)

\* \w
IsWordChar(c) == IsAlpha(c) \/ IsDigit(c) \/ c = "_"

\* \s
IsSpace(c) == c \in WhitespaceChars

Take(s, n) == SubSeq(s, 1, n)

Drop(s, n) == SubSeq(s, n + 1, Len(s))

\* F applied to the value of v, evaluated once
Bind(v, F(_)) == CHOOSE r \in { F(x) : x \in {v} } : TRUE

\* String.prototype.endsWith on the lower-cased string; w is lower case
EndsWithCI(s, w) ==
    /\ Len(s) >= Len(w)
    /\ LowerStr(SubSeq(s, Len(s) - Len(w) + 1, Len(s))) = w

\* w occurs in s at position k (case-sensitive)
MatchAt(s, k, w) ==
    /\ k >= 1
    /\ k + Len(w) - 1 <= Len(s)
    /\ SubSeq(s, k, k + Len(w) - 1) = w

\* String.prototype.indexOf, 1-based; 0 when w does not occur
IndexOf(s, w) ==
    IF \E k \in 1..Len(s) : MatchAt(s, k, w)
    THEN CHOOSE k \in 1..Len(s) :
            /\ MatchAt(s, k, w)
            /\ \A j \in 1..(k - 1) : ~MatchAt(s, j, w)
    ELSE 0

\* the length of the run of characters satisfying the class, ending at position n
RECURSIVE SpaceRunBefore(_, _)
SpaceRunBefore(s, n) ==
    IF n >= 1 /\ IsSpace(s[n]) THEN 1 + SpaceRunBefore(s, n - 1) ELSE 0

RECURSIVE DigitRunBefore(_, _)
DigitRunBefore(s, n) ==
    IF n >= 1 /\ IsDigit(s[n]) THEN 1 + DigitRunBefore(s, n - 1) ELSE 0

\* the length of the run starting at position k
RECURSIVE SpaceRunAt(_, _)
SpaceRunAt(s, k) ==
    IF k <= Len(s) /\ IsSpace(s[k]) THEN 1 + SpaceRunAt(s, k + 1) ELSE 0

RECURSIVE DigitRunAt(_, _)
DigitRunAt(s, k) ==
    IF k <= Len(s) /\ IsDigit(s[k]) THEN 1 + DigitRunAt(s, k + 1) ELSE 0

RECURSIVE WordRunAt(_, _)
WordRunAt(s, k) ==
    IF k <= Len(s) /\ IsWordChar(s[k]) THEN 1 + WordRunAt(s, k + 1) ELSE 0

\* String.prototype.trim
RECURSIVE TrimLeft(_)
TrimLeft(s) ==
    IF Len(s) > 0 /\ IsSpace(s[1]) THEN TrimLeft(Tail(s)) ELSE s

Trim(s) ==
    LET t == TrimLeft(s)
    IN  Take(t, Len(t) - SpaceRunBefore(t, Len(t)))

(***************************************************************************)
(* cleanTrackName: the clean display name.                                 *)
(***************************************************************************)
DotNewDot == <<".","n","e","w",".">>

\* const extensions = ['.wav', '.mp3', '.aif', '.aiff'], in the order of the loop
extensions ==
    << <<".","w","a","v">>, <<".","m","p","3">>, <<".","a","i","f">>, <<".","a","i","f","f">> >>

cleanTrackName(trackName) ==
    LET idx == IndexOf(trackName, DotNewDot)
        cut == IF idx # 0 THEN Take(trackName, idx - 1) ELSE trackName
        hits == { k \in 1..Len(extensions) : EndsWithCI(cut, extensions[k]) }
        first == CHOOSE k \in hits : \A j \in hits : k <= j
        cleaned == IF hits = {} THEN cut
                   ELSE Take(cut, Len(cut) - Len(extensions[first]))
    IN  Trim(cleaned)

(***************************************************************************)
(* getBaseTrackName: the canonical identity.                               *)
(***************************************************************************)
\* .replace(/\.new\..*/, '')
StripNewSuffix(s) ==
    LET idx == IndexOf(s, DotNewDot)
    IN  IF idx # 0 THEN Take(s, idx - 1) ELSE s

\* .replace(/\.(wav|mp3|aif|aiff)$/i, '')
StripExtension(s) ==
    LET hits == { k \in 1..Len(extensions) : EndsWithCI(s, extensions[k]) }
        longest == CHOOSE k \in hits :
                      \A j \in hits : Len(extensions[k]) >= Len(extensions[j])
    IN  IF hits = {} THEN s ELSE Take(s, Len(s) - Len(extensions[longest]))

DotCopyDot == <<".","C","o","p","y",".">>

\* .replace(/\.Copy\.\d+/g, ''), scanning from position k
RECURSIVE StripCopyFrom(_, _)
StripCopyFrom(s, k) ==
    IF k > Len(s) THEN <<>>
    ELSE IF MatchAt(s, k, DotCopyDot) /\ DigitRunAt(s, k + Len(DotCopyDot)) >= 1
         THEN StripCopyFrom(s, k + Len(DotCopyDot) + DigitRunAt(s, k + Len(DotCopyDot)))
         ELSE <<s[k]>> \o StripCopyFrom(s, k + 1)

StripCopyMarkers(s) == StripCopyFrom(s, 1)

\* the general cleanup before the loop
InitialCleanup(trackName) == StripCopyMarkers(StripExtension(StripNewSuffix(trackName)))

\* patternsToRemove[0]: /\s*[\(\[].*?[\)\]]/g, scanning from position k
RECURSIVE RemoveBracketedFrom(_, _)
RemoveBracketedFrom(s, k) ==
    IF k > Len(s) THEN <<>>
    ELSE LET open == k + SpaceRunAt(s, k)
             closes == { m \in (open + 1)..Len(s) : s[m] \in {")", "]"} }
             close == CHOOSE m \in closes : \A j \in closes : m <= j
         IN  IF open <= Len(s) /\ s[open] \in {"(", "["} /\ closes # {}
             THEN RemoveBracketedFrom(s, close + 1)
             ELSE <<s[k]>> \o RemoveBracketedFrom(s, k + 1)

RemoveBracketed(s) == RemoveBracketedFrom(s, 1)

\* the alternatives of patternsToRemove[1], lower case
DescriptorSuffixes ==
    { <<"i","n","s","t","r","u","m","e","n","t","a","l">>,
      <<"i","n","s","t">>,
      <<"u","n","d","e","r","s","c","o","r","e">>,
      <<"n","o","v","o","x">>,
      <<"n","o"," ","v","o","x">>,
      <<"n","o","_","v","o","x">>,
      <<"v","o","c","a","l">>,
      <<"v","o","c","a","l","s">>,
      <<"r","e","m","i","x">>,
      <<"a","l","t">>,
      <<"l","i","t","e">>,
      <<"f","u","l","l">>,
      <<"k","e","y","s">>,
      <<"f","x">>,
      <<"d","r","u","m","s">>,
      <<"b","a","s","s">>,
      <<"s","f","x">>,
      <<"c","h","o","i","r">>,
      <<"p","n","o">>,
      <<"s","t","r","i","n","g","s">>,
      <<"l","e","a","d">>,
      <<"m","i","x">>,
      <<"f","u","l","l","m","i","x">>,
      <<"l","i","t","e","m","i","x">>,
      <<"d","r","u","m","n","b","a","s","s">>,
      <<"b","i","g","n","s","p","a","r","s","e","m","i","x">>,
      <<"s","t","e","m">>,
      <<"v","e","r","s","i","o","n">>,
      <<"e","d","i","t">>,
      <<"a","t","m","o","s">>,
      <<"d","r","m">>,
      <<"g","t","r">>,
      <<"p","i","a","n","o">>,
      <<"s","y","n","t","h">>,
      <<"s","t","r","i","p">> }

\* patternsToRemove[1]: /_(INSTRUMENTAL|INST|...|STRIP)$/i
RemoveDescriptorSuffix(s) ==
    LET hits == { w \in DescriptorSuffixes : EndsWithCI(s, <<"_">> \o w) }
        longest == CHOOSE w \in hits : \A x \in hits : Len(w) >= Len(x)
    IN  IF hits = {} THEN s ELSE Take(s, Len(s) - Len(longest) - 1)

UnderscoreOnly == <<"_","o","n","l","y">>

\* patternsToRemove[2]: /_only[a-zA-Z0-9_]+$/i
RemoveOnlySuffix(s) ==
    LET hits == { k \in 1..Len(s) :
                    /\ k + Len(UnderscoreOnly) <= Len(s)
                    /\ LowerStr(SubSeq(s, k, k + Len(UnderscoreOnly) - 1)) = UnderscoreOnly
                    /\ WordRunAt(s, k + Len(UnderscoreOnly)) = Len(s) - k - Len(UnderscoreOnly) + 1 }
        first == CHOOSE k \in hits : \A j \in hits : k <= j
    IN  IF hits = {} THEN s ELSE Take(s, first - 1)

\* the alternatives of patternsToRemove[3], lower case
DashDescriptors ==
    { <<"i","n","s","t","r","u","m","e","n","t","a","l">>,
      <<"v","o","c","a","l">>,
      <<"r","e","m","i","x">>,
      <<"u","n","d","e","r","s","c","o","r","e">>,
      <<"l","i","t","e">>,
      <<"f","u","l","l">>,
      <<"s","t","e","m">>,
      <<"e","d","i","t">> }

\* where /\s+-\s+<w>$/ starts in s, 0 when it does not match
DashMatchStart(s, w) ==
    IF ~EndsWithCI(s, w) THEN 0
    ELSE LET n == Len(s) - Len(w)
             a == SpaceRunBefore(s, n)
             d == n - a
             b == IF d >= 1 THEN SpaceRunBefore(s, d - 1) ELSE 0
         IN  IF a >= 1 /\ d >= 1 /\ s[d] = "-" /\ b >= 1 THEN d - b ELSE 0

\* patternsToRemove[3]: /\s+-\s+(Instrumental|Vocal|...|Edit)$/i
RemoveDashDescriptor(s) ==
    LET hits == { w \in DashDescriptors : DashMatchStart(s, w) # 0 }
        hit == CHOOSE w \in hits : TRUE
    IN  IF hits = {} THEN s ELSE Take(s, DashMatchStart(s, hit) - 1)

\* the pass without patternsToRemove[4]: a version number stays
KeepVersionSuffix(s) == s

\* patternsToRemove[4]: /v\d+$/i
RemoveVersionSuffix(s) ==
    LET d == DigitRunBefore(s, Len(s))
    IN  IF d >= 1 /\ Len(s) - d >= 1 /\ Lower(s[Len(s) - d]) = "v"
        THEN Take(s, Len(s) - d - 1)
        ELSE s

\* the fixed alternatives of patternsToRemove[5], lower case
StandaloneWords ==
    { <<"f","u","l","l">>,
      <<"l","i","t","e">>,
      <<"a","l","t">>,
      <<"s","t","e","m","s">>,
      <<"d","r","u","m","s">>,
      <<"b","a","s","s">> }

OnlyPrefix == <<"o","n","l","y">>

\* a whole run of word characters that (full|lite|only\w+|alt|stems|drums|bass) matches
IsStandaloneWord(w) ==
    \/ LowerStr(w) \in StandaloneWords
    \/ /\ Len(w) > Len(OnlyPrefix)
       /\ LowerStr(Take(w, Len(OnlyPrefix))) = OnlyPrefix

\* patternsToRemove[5]: /\b(full|lite|only\w+|alt|stems|drums|bass)\b/i, first match only
RemoveStandaloneWord(s) ==
    LET hits == { k \in 1..Len(s) :
                    /\ IsWordChar(s[k])
                    /\ (k = 1 \/ ~IsWordChar(s[k - 1]))
                    /\ IsStandaloneWord(SubSeq(s, k, k + WordRunAt(s, k) - 1)) }
        first == CHOOSE k \in hits : \A j \in hits : k <= j
    IN  IF hits = {} THEN s
        ELSE Take(s, first - 1) \o Drop(s, first + WordRunAt(s, first) - 1)

\* .replace(/[\W_]+$/, '')
RECURSIVE StripTrailingNonAlnum(_)
StripTrailingNonAlnum(s) ==
    IF Len(s) > 0 /\ ~(IsAlpha(s[Len(s)]) \/ IsDigit(s[Len(s)]))
    THEN StripTrailingNonAlnum(Take(s, Len(s) - 1))
    ELSE s

\* one iteration of the do-while body: every pattern in order, then the trailing strip
StripPass(b) ==
    Trim(StripTrailingNonAlnum(
        RemoveStandaloneWord(RemoveVersionSuffix(RemoveDashDescriptor(
            RemoveOnlySuffix(RemoveDescriptorSuffix(RemoveBracketed(b))))))))

\* do { previousBase = base; ... } while (base !== previousBase)
RECURSIVE StripLoop(_)
StripLoop(b) ==
    LET next == StripPass(b)
    IN  IF next = b THEN next ELSE StripLoop(next)

getBaseTrackName(trackName) == Trim(StripLoop(InitialCleanup(trackName)))

(***************************************************************************)
(* State.                                                                  *)
(***************************************************************************)
VARIABLES
    \* the App component's React state
    status, results, summaries, errorMessage, mkrCommissionedDatabase,
    \* the startup fetch of the reference data: "pending", "ok" or "failed"
    fetchState,
    \* the outstanding processFiles call: where it awaits, and its locals
    pc, files, fileIdx, trackClips, baseNameToOriginalName, newSummaries,
    trackDurations, enrichedData, lookups,
    \* one call of getBaseTrackName, statement by statement
    name, base, previousBase, npc,
    \* the merge of one identity's clips, statement by statement
    clips, i, totalDurationFrames, currentStart, currentEnd, mpc

appVars == <<status, results, summaries, errorMessage, mkrCommissionedDatabase,
             fetchState, pc, files, fileIdx, trackClips, baseNameToOriginalName,
             newSummaries, trackDurations, enrichedData, lookups>>

normVars == <<name, base, previousBase, npc>>

mergeVars == <<clips, i, totalDurationFrames, currentStart, currentEnd, mpc>>

vars == <<appVars, normVars, mergeVars>>

(***************************************************************************)
(* getBaseTrackName, statement by statement, on bounded raw clip names.    *)
(***************************************************************************)
\* the pieces raw clip names are built from
NameParts ==
    { <<"a">>,
      <<"o","n","l","y">>,
      <<"v","2">>,
      <<" ">>,
      <<"_">>,
      <<".","w","a","v">>,
      <<"_","F","U","L","L">>,
      <<"_","I","N","S","T">>,
      <<".","C","o","p","y",".","1">>,
      <<".","n","e","w",".","1">>,
      <<" ","(","D",")">>,
      <<" ","-"," ","F","u","l","l">> }

\* the most pieces in one raw clip name
MaxParts == 3

RECURSIVE Concatenations(_)
Concatenations(n) ==
    IF n = 0 THEN { <<>> }
    ELSE { p \o q : p \in NameParts, q \in Concatenations(n - 1) }

\* clipRegex captures (.+?) between runs of whitespace: a clip name is not
\* empty and neither starts nor ends with whitespace
IsClipName(s) == Len(s) >= 1 /\ ~IsSpace(s[1]) /\ ~IsSpace(s[Len(s)])

\* the raw clip names of at most MaxParts fragments
InitNorm ==
    /\ name \in { s \in UNION { Concatenations(n) : n \in 1..MaxParts } : IsClipName(s) }
    /\ base = <<>>
    /\ previousBase = <<>>
    /\ npc = "cleanup"

NormIdle ==
    /\ name = <<>>
    /\ base = <<>>
    /\ previousBase = <<>>
    /\ npc = "off"

\* let base = name.replace(...).replace(...).replace(...)
NormCleanup ==
    /\ npc = "cleanup"
    /\ base' = InitialCleanup(name)
    /\ npc' = "loop"
    /\ UNCHANGED <<name, previousBase>>
    /\ UNCHANGED <<appVars, mergeVars>>

\* one iteration of the do-while loop, with its exit test
NormPass ==
    /\ npc = "loop"
    /\ previousBase' = base
    /\ base' = StripPass(base)
    /\ npc' = IF base' # previousBase' THEN "loop" ELSE "return"
    /\ UNCHANGED name
    /\ UNCHANGED <<appVars, mergeVars>>

\* return base.trim()
NormReturn ==
    /\ npc = "return"
    /\ base' = Trim(base)
    /\ npc' = "done"
    /\ UNCHANGED <<name, previousBase>>
    /\ UNCHANGED <<appVars, mergeVars>>

(***************************************************************************)
(* timecodeToFrames.  A timecode token is the string clipRegex captures    *)
(* with [\d:]{11}: eleven characters, each a decimal digit or a colon, so  *)
(* every field of the token is a string of digits, possibly empty.         *)
(***************************************************************************)
FRAME_RATE == 25

Digits == <<"0","1","2","3","4","5","6","7","8","9">>

DigitValue(c) == (CHOOSE d \in 1..10 : Digits[d] = c) - 1

\* Number(field) for a string of decimal digits; Number('') is 0
RECURSIVE Number(_)
Number(field) ==
    IF field = <<>> THEN 0
    ELSE Number(Take(field, Len(field) - 1)) * 10 + DigitValue(field[Len(field)])

\* tc.split(':')
RECURSIVE Split(_)
Split(tc) ==
    IF \A p \in 1..Len(tc) : tc[p] # ":" THEN <<tc>>
    ELSE LET colon == CHOOSE p \in 1..Len(tc) :
                          tc[p] = ":" /\ \A q \in 1..(p - 1) : tc[q] # ":"
         IN  <<Take(tc, colon - 1)>> \o Split(Drop(tc, colon))

\* the body of timecodeToFrames with the test parts.length < 4
timecodeToFramesAtLeastFour(tc) ==
    LET fields == Split(tc)
        parts == [k \in 1..Len(fields) |-> Number(fields[k])]
    IN  IF Len(parts) < 4 THEN 0
        ELSE (parts[1] * 3600 + parts[2] * 60 + parts[3]) * FRAME_RATE + parts[4]

timecodeToFrames(tc) ==
    LET fields == Split(tc)
        parts == [k \in 1..Len(fields) |-> Number(fields[k])]
    IN  IF Len(parts) # 4 THEN 0
        ELSE (parts[1] * 3600 + parts[2] * 60 + parts[3]) * FRAME_RATE + parts[4]

(***************************************************************************)
(* A JavaScript Map: its entries in insertion order.                       *)
(***************************************************************************)
MapHas(m, k) == \E j \in 1..Len(m) : m[j].key = k

MapGet(m, k) == m[CHOOSE j \in 1..Len(m) : m[j].key = k].value

MapSet(m, k, v) ==
    IF MapHas(m, k)
    THEN [j \in 1..Len(m) |-> IF m[j].key = k THEN [key |-> k, value |-> v] ELSE m[j]]
    ELSE Append(m, [key |-> k, value |-> v])

MapKeys(m) == [j \in 1..Len(m) |-> m[j].key]

(***************************************************************************)
(* The merge of one identity's clips (processFiles, lines 379-395).        *)
(***************************************************************************)
\* Array.prototype.sort is stable: c goes after every clip that does not start later
RECURSIVE InsertByStart(_, _)
InsertByStart(sorted, c) ==
    IF sorted = <<>> THEN <<c>>
    ELSE IF sorted[Len(sorted)].startTimeFrames - c.startTimeFrames <= 0
         THEN Append(sorted, c)
         ELSE Append(InsertByStart(Take(sorted, Len(sorted) - 1), c), sorted[Len(sorted)])

\* clips.sort((a, b) => a.startTimeFrames - b.startTimeFrames)
RECURSIVE SortByStart(_)
SortByStart(cs) ==
    IF cs = <<>> THEN <<>>
    ELSE Bind(SortByStart(Take(cs, Len(cs) - 1)),
              LAMBDA sorted : InsertByStart(sorted, cs[Len(cs)]))

Max(a, b) == IF a >= b THEN a ELSE b

\* the locals before the loop
FirstWindow(sorted) ==
    [total |-> 0,
     currentStart |-> sorted[1].startTimeFrames,
     currentEnd |-> sorted[1].endTimeFrames]

\* the body of the for loop without the one-frame tolerance: a clip joins the
\* window only when it starts at or before the window's end
MergeStepNoTolerance(w, clip) ==
    IF clip.startTimeFrames <= w.currentEnd
    THEN [w EXCEPT !.currentEnd = Max(w.currentEnd, clip.endTimeFrames)]
    ELSE [total |-> w.total + (w.currentEnd - w.currentStart),
          currentStart |-> clip.startTimeFrames,
          currentEnd |-> clip.endTimeFrames]

\* the body of the for loop, on the locals w and the clip clips[i]
MergeStep(w, clip) ==
    IF clip.startTimeFrames <= w.currentEnd + 1
    THEN [w EXCEPT !.currentEnd = Max(w.currentEnd, clip.endTimeFrames)]
    ELSE [total |-> w.total + (w.currentEnd - w.currentStart),
          currentStart |-> clip.startTimeFrames,
          currentEnd |-> clip.endTimeFrames]

\* the last window counted with both of its end frames
FinalFlushInclusive(w) == w.total + (w.currentEnd - w.currentStart + 1)

\* totalDurationFrames += (currentEnd - currentStart), after the loop
FinalFlush(w) == w.total + (w.currentEnd - w.currentStart)

\* the locals after the iterations up to clip number n of the sorted clips
RECURSIVE MergeWalk(_, _)
MergeWalk(sorted, n) ==
    IF n <= 1 THEN FirstWindow(sorted)
    ELSE Bind(MergeWalk(sorted, n - 1), LAMBDA w : MergeStep(w, sorted[n]))

\* the total duration of one identity's clips
MergeTotal(cs) ==
    Bind(SortByStart(cs),
         LAMBDA sorted : Bind(MergeWalk(sorted, Len(sorted)), FinalFlush))

(***************************************************************************)
(* The merge of one identity's clips, statement by statement, on bounded   *)
(* clip lists.                                                             *)
(***************************************************************************)
\* the largest frame number of a bounded clip
MaxFrame == 2

\* the most clips of one identity
MaxClips == 3

Clip(s, e) == [startTimeFrames |-> s, endTimeFrames |-> e]

\* start <= end is not enforced by the parser
BoundedClips == { Clip(s, e) : s \in 0..MaxFrame, e \in 0..MaxFrame }

AdjacentExample == << Clip(0, 99), Clip(100, 199) >>

GapOneExample == << Clip(0, 99), Clip(101, 199) >>

GapTwoExample == << Clip(0, 99), Clip(102, 199) >>

\* every list of at most MaxClips bounded clips, and the three worked examples
InitMerge ==
    /\ clips \in UNION { [1..n -> BoundedClips] : n \in 1..MaxClips }
                    \cup { AdjacentExample, GapOneExample, GapTwoExample }
    /\ i = 0
    /\ totalDurationFrames = 0
    /\ currentStart = 0
    /\ currentEnd = 0
    /\ mpc = "sort"

MergeIdle ==
    /\ clips = <<>>
    /\ i = 0
    /\ totalDurationFrames = 0
    /\ currentStart = 0
    /\ currentEnd = 0
    /\ mpc = "off"

\* the locals of the merge as one record
MergeLocals ==
    [total |-> totalDurationFrames, currentStart |-> currentStart, currentEnd |-> currentEnd]

SetMergeLocals(w) ==
    /\ totalDurationFrames' = w.total
    /\ currentStart' = w.currentStart
    /\ currentEnd' = w.currentEnd

\* clips.sort(...), in place
MergeSort ==
    /\ mpc = "sort"
    /\ clips' = SortByStart(clips)
    /\ mpc' = "first"
    /\ UNCHANGED <<i, totalDurationFrames, currentStart, currentEnd>>
    /\ UNCHANGED <<appVars, normVars>>

\* let totalDurationFrames = 0; let currentStart = ...; let currentEnd = ...; i = 1
MergeFirst ==
    /\ mpc = "first"
    /\ SetMergeLocals(FirstWindow(clips))
    /\ i' = 1
    /\ mpc' = "loop"
    /\ UNCHANGED clips
    /\ UNCHANGED <<appVars, normVars>>

\* one iteration of the for loop; clips[i] of the source is clips[i + 1] here
MergeLoop ==
    /\ mpc = "loop"
    /\ i < Len(clips)
    /\ SetMergeLocals(MergeStep(MergeLocals, clips[i + 1]))
    /\ i' = i + 1
    /\ UNCHANGED <<clips, mpc>>
    /\ UNCHANGED <<appVars, normVars>>

\* the loop ends: the last window is added to the total
MergeFlush ==
    /\ mpc = "loop"
    /\ i >= Len(clips)
    /\ totalDurationFrames' = FinalFlush(MergeLocals)
    /\ mpc' = "done"
    /\ UNCHANGED <<clips, i, currentStart, currentEnd>>
    /\ UNCHANGED <<appVars, normVars>>

(***************************************************************************)
(* The parsing of the input files (processFiles, lines 339-372).  A line   *)
(* is modelled by what clipRegex captures from it: the clip name, the two  *)
(* timecode tokens the aggregation uses and the state; a line the regular  *)
(* expression does not match has the state "NoMatch".                      *)
(***************************************************************************)
\* the raw clip names of the modelled files
OnlyV2 == <<"o","n","l","y","v","2">>

OnlyV2SpaceWav == <<"o","n","l","y","v","2"," ",".","w","a","v">>

Only == <<"o","n","l","y">>

ThemeV2 == <<"T","h","e","m","e","_","v","2">>

ThemeFull == <<"T","h","e","m","e","_","F","U","L","L">>

MkrPos == <<"M","K","R","1","_","P","O","S","_","M","S","_","F","U","L","L">>

ClipNames == { OnlyV2, OnlyV2SpaceWav, Only, ThemeV2, ThemeFull, MkrPos }

\* getBaseTrackName and cleanTrackName on the modelled clip names, tabulated once
BaseNamePairs == { <<n, getBaseTrackName(n)>> : n \in ClipNames }

CleanNamePairs == { <<n, cleanTrackName(n)>> : n \in ClipNames }

BaseNameOf(n) == (CHOOSE p \in BaseNamePairs : p[1] = n)[2]

CleanNameOf(n) == (CHOOSE p \in CleanNamePairs : p[1] = n)[2]

EmptyMaps == [trackClips |-> <<>>, baseNameToOriginalName |-> <<>>]

\* the body of the loop over the lines without the test of the state: a Muted line
\* is collected like an Unmuted one
ParseLineIgnoringMute(maps, line) ==
    IF line.state \in {"Muted", "Unmuted"}
    THEN LET baseName == BaseNameOf(line.clipName)
             names == IF ~MapHas(maps.baseNameToOriginalName, baseName)
                      THEN MapSet(maps.baseNameToOriginalName, baseName,
                                  CleanNameOf(line.clipName))
                      ELSE maps.baseNameToOriginalName
             old == IF MapHas(maps.trackClips, baseName)
                    THEN MapGet(maps.trackClips, baseName)
                    ELSE <<>>
             new == Append(old, Clip(timecodeToFrames(line.startTime),
                                     timecodeToFrames(line.endTime)))
         IN  [trackClips |-> MapSet(maps.trackClips, baseName, new),
              baseNameToOriginalName |-> names]
    ELSE maps

\* the body of the loop over the lines without the test of has(baseName): every
\* unmuted line sets the display name of its identity
ParseLineOverwrites(maps, line) ==
    IF line.state \in {"Muted", "Unmuted"} /\ line.state = "Unmuted"
    THEN LET baseName == BaseNameOf(line.clipName)
             names == MapSet(maps.baseNameToOriginalName, baseName,
                             CleanNameOf(line.clipName))
             old == IF MapHas(maps.trackClips, baseName)
                    THEN MapGet(maps.trackClips, baseName)
                    ELSE <<>>
             new == Append(old, Clip(timecodeToFrames(line.startTime),
                                     timecodeToFrames(line.endTime)))
         IN  [trackClips |-> MapSet(maps.trackClips, baseName, new),
              baseNameToOriginalName |-> names]
    ELSE maps

\* the body of the loop over the lines of a file, on the two maps
ParseLine(maps, line) ==
    IF line.state \in {"Muted", "Unmuted"} /\ line.state = "Unmuted"
    THEN LET baseName == BaseNameOf(line.clipName)
             names == IF ~MapHas(maps.baseNameToOriginalName, baseName)
                      THEN MapSet(maps.baseNameToOriginalName, baseName,
                                  CleanNameOf(line.clipName))
                      ELSE maps.baseNameToOriginalName
             old == IF MapHas(maps.trackClips, baseName)
                    THEN MapGet(maps.trackClips, baseName)
                    ELSE <<>>
             new == Append(old, Clip(timecodeToFrames(line.startTime),
                                     timecodeToFrames(line.endTime)))
         IN  [trackClips |-> MapSet(maps.trackClips, baseName, new),
              baseNameToOriginalName |-> names]
    ELSE maps

\* for (const line of lines) { ... }
RECURSIVE ParseLines(_, _)
ParseLines(maps, lines) ==
    IF lines = <<>> THEN maps
    ELSE Bind(ParseLines(maps, Take(lines, Len(lines) - 1)),
              LAMBDA m : ParseLine(m, lines[Len(lines)]))

\* for (const file of files) { ... }, up to file number n
RECURSIVE ParseFiles(_, _)
ParseFiles(fs, n) ==
    IF n = 0 THEN EmptyMaps
    ELSE Bind(ParseFiles(fs, n - 1), LAMBDA m : ParseLines(m, fs[n].lines))

NoSessionLine == "no SESSION NAME line"

\* the session summary of one file
Summary(file) ==
    [fileName |-> file.fileName,
     sessionName |-> IF file.sessionLine = NoSessionLine
                     THEN "Unknown Session"
                     ELSE file.sessionLine]

(***************************************************************************)
(* The durations (processFiles, lines 375-398).                            *)
(***************************************************************************)
\* the loop over trackClips.entries(), up to entry number n
RECURSIVE Durations(_, _, _)
Durations(tc, names, n) ==
    IF n = 0 THEN <<>>
    ELSE Bind(Durations(tc, names, n - 1),
              LAMBDA before :
                  IF Len(tc[n].value) = 0 THEN before
                  ELSE Bind(MergeTotal(tc[n].value),
                            LAMBDA total : MapSet(before, MapGet(names, tc[n].key), total)))

ComputeDurations(maps) ==
    Bind(maps, LAMBDA m :
        Durations(m.trackClips, m.baseNameToOriginalName, Len(m.trackClips)))

\* clips.sort(...) sorts the arrays held by trackClips in place
SortedInPlace(tc) ==
    [j \in 1..Len(tc) |-> [key |-> tc[j].key, value |-> SortByStart(tc[j].value)]]

(***************************************************************************)
(* The enrichment (processFiles, lines 498-623).  A composer is the        *)
(* sequence of the words of their name.                                    *)
(***************************************************************************)
Library == "Production Music (library)"

Commercial == "Commercial Recording"

Commissioned == "Commissioned"

MusicSources == { Library, Commercial, Commissioned }

\* track.composers: undefined, or an array of names
Undefined == [defined |-> FALSE, list |-> <<>>]

Array(list) == [defined |-> TRUE, list |-> list]

\* String.prototype.toUpperCase, on one character
Upper(c) ==
    IF \E k \in 1..26 : LowerChars[k] = c
    THEN UpperChars[CHOOSE k \in 1..26 : LowerChars[k] = c]
    ELSE c

MkrPrefix == <<"m","k","r">>

\* .replace(/^MKR\d+_/i, '')
StripMkrPrefix(s) ==
    LET d == DigitRunAt(s, Len(MkrPrefix) + 1)
        after == Len(MkrPrefix) + d + 1
    IN  IF /\ Len(s) >= Len(MkrPrefix)
           /\ LowerStr(Take(s, Len(MkrPrefix))) = MkrPrefix
           /\ d >= 1
           /\ after <= Len(s)
           /\ s[after] = "_"
        THEN Drop(s, after)
        ELSE s

MkrSuffixes == { <<"m","s">>, <<"c","t">>, <<"a","a">> }

UnderscoreFull == <<"_","f","u","l","l">>

\* .replace(/_(MS|CT|AA)(_FULL)?$/i, ''), the leftmost match
StripMkrSuffix(s) ==
    LET hits == { k \in 1..Len(s) :
                    /\ s[k] = "_"
                    /\ k + 2 <= Len(s)
                    /\ LowerStr(SubSeq(s, k + 1, k + 2)) \in MkrSuffixes
                    /\ (k + 2 = Len(s) \/ LowerStr(Drop(s, k + 2)) = UnderscoreFull) }
        first == CHOOSE k \in hits : \A j \in hits : k <= j
    IN  IF hits = {} THEN s ELSE Take(s, first - 1)

\* .replace(/_/g, ' ').toLowerCase()
SpacedLower(s) == [k \in 1..Len(s) |-> IF s[k] = "_" THEN " " ELSE Lower(s[k])]

\* the first and the last position of the word of t.split(' ') that holds position k
RECURSIVE WordStart(_, _)
WordStart(t, k) == IF k > 1 /\ t[k - 1] # " " THEN WordStart(t, k - 1) ELSE k

RECURSIVE WordEnd(_, _)
WordEnd(t, k) == IF k < Len(t) /\ t[k + 1] # " " THEN WordEnd(t, k + 1) ELSE k

Pos == <<"p","o","s">>

\* .split(' ').map(word => ...).join(' '): 'POS' in upper case, every other word
\* with its first letter in upper case
Capitalized(t) ==
    [k \in 1..Len(t) |->
        IF t[k] = " " THEN " "
        ELSE IF SubSeq(t, WordStart(t, k), WordEnd(t, k)) = Pos THEN Upper(t[k])
        ELSE IF k = WordStart(t, k) THEN Upper(t[k])
        ELSE t[k]]

parseMkrTitle(filename) ==
    Capitalized(SpacedLower(StripMkrSuffix(StripMkrPrefix(filename))))

\* the characters of the modelled titles in the order of the default collation:
\* whitespace, punctuation, digits, letters
CollationOrder ==
    <<" ","_","-","?",".","(",")","0","1","2","3","4","5","6","7","8","9">> \o LowerChars

CollationRank(c) ==
    CHOOSE r \in 1..Len(CollationOrder) : CollationOrder[r] = Lower(c)

\* the comparison of two titles letter by letter, the case of the letters ignored:
\* negative, zero or positive
RECURSIVE ComparePrimary(_, _)
ComparePrimary(a, b) ==
    IF a = <<>> /\ b = <<>> THEN 0
    ELSE IF a = <<>> THEN -1
    ELSE IF b = <<>> THEN 1
    ELSE IF CollationRank(a[1]) # CollationRank(b[1])
         THEN CollationRank(a[1]) - CollationRank(b[1])
         ELSE ComparePrimary(Tail(a), Tail(b))

\* two titles with the same letters: the first difference of case decides, the
\* lower-case letter first
RECURSIVE CompareCase(_, _)
CompareCase(a, b) ==
    IF a = <<>> \/ b = <<>> THEN 0
    ELSE IF a[1] = b[1] THEN CompareCase(Tail(a), Tail(b))
    ELSE IF a[1] = Lower(a[1]) THEN -1 ELSE 1

\* a.localeCompare(b)
localeCompare(a, b) ==
    IF ComparePrimary(a, b) # 0 THEN ComparePrimary(a, b) ELSE CompareCase(a, b)

\* "LastName FirstName" becomes "FirstName LastName"
formatMkrComposerName(composer) ==
    IF Len(composer) = 2 THEN <<composer[2], composer[1]>> ELSE composer

\* the post-processing tweak for Commissioned tracks
PostProcess(data) ==
    [k \in 1..Len(data) |->
        IF data[k].musicSource = Commissioned
        THEN [data[k] EXCEPT
                !.title = parseMkrTitle(data[k].originalName),
                !.composers =
                    IF data[k].composers.defined
                    THEN Array([j \in 1..Len(data[k].composers.list) |->
                                    formatMkrComposerName(data[k].composers.list[j])])
                    ELSE data[k].composers]
        ELSE data[k]]

\* !track.composers || track.composers.length === 0
NoComposers(track) == ~track.composers.defined \/ Len(track.composers.list) = 0

\* tracksToSearch, as the positions of its tracks in enrichedData
LibraryTargets(data) ==
    { k \in 1..Len(data) : data[k].musicSource = Library /\ NoComposers(data[k]) }

\* commercialTracksToSearch
CommercialTargets(data) ==
    { k \in 1..Len(data) : data[k].musicSource = Commercial /\ NoComposers(data[k]) }

NoLookup == [issued |-> 0, state |-> "none"]

\* ai.models.generateContent(...) is called once for every track of targets
Issue(lk, targets) ==
    [k \in DOMAIN lk |->
        IF k \in targets
        THEN [issued |-> lk[k].issued + 1, state |-> "pending"]
        ELSE lk[k]]

AllSettled(lk) == \A k \in DOMAIN lk : lk[k].state # "pending"

\* Array.prototype.sort is stable: r goes after every record whose title is not greater
RECURSIVE InsertByTitle(_, _)
InsertByTitle(sorted, r) ==
    IF sorted = <<>> THEN <<r>>
    ELSE IF localeCompare(sorted[Len(sorted)].title, r.title) <= 0
         THEN Append(sorted, r)
         ELSE Append(InsertByTitle(Take(sorted, Len(sorted) - 1), r), sorted[Len(sorted)])

RECURSIVE SortByTitle(_)
SortByTitle(rs) ==
    IF rs = <<>> THEN <<>>
    ELSE Bind(SortByTitle(Take(rs, Len(rs) - 1)),
              LAMBDA sorted : InsertByTitle(sorted, rs[Len(rs)]))

\* trackDurations.get(info.originalName) || 0
DurationOrZero(durations, originalName) ==
    IF MapHas(durations, originalName) THEN MapGet(durations, originalName) ELSE 0

\* finalResults, sorted by title
FinalResults(data, durations) ==
    SortByTitle([k \in 1..Len(data) |->
        [originalName |-> data[k].originalName,
         title |-> data[k].title,
         musicSource |-> data[k].musicSource,
         composers |-> data[k].composers,
         totalDurationFrames |-> DurationOrZero(durations, data[k].originalName)]])

(***************************************************************************)
(* The App component: the startup fetch, processFiles and handleReset.     *)
(* processFiles runs from one await to the next in one step.               *)
(***************************************************************************)
FetchFailedMessage ==
    "Could not load the commissioned music database. Please check the file path and network connection."

NotLoadedMessage ==
    "The Commissioned Music Database has not loaded yet. Please wait a moment and try again."

NoClipsMessage == "No valid unmuted music clips found in the provided files."

\* the message of an error thrown by file.text(), generateContent or JSON.parse
ExternalErrorMessage == "external error"

\* the texts the reference data file may hold
ReferenceTexts == { "", "MKR database" }

\* the token 00:00:00:0f
TC(f) == <<"0","0",":","0","0",":","0","0",":","0", Digits[f + 1]>>

Line(n, s, e, st) == [clipName |-> n, startTime |-> s, endTime |-> e, state |-> st]

NoMatchLine == Line(<<>>, <<>>, <<>>, "NoMatch")

FileA ==
    [fileName |-> "A", sessionLine |-> "Mix1",
     lines |-> << NoMatchLine, Line(ThemeV2, <<"0","1",":","0","0",":","0","0",":","0","0">>,
                                 <<"0","1",":","0","0",":","0","5",":","0","0">>, "Unmuted") >>]

FileB ==
    [fileName |-> "B", sessionLine |-> NoSessionLine,
     lines |-> << Line(ThemeFull, <<"0","1",":","0","0",":","0","4",":","2","4">>,
                 <<"0","1",":","0","0",":","1","0",":","0","0">>, "Unmuted") >>]

FileMuted ==
    [fileName |-> "M", sessionLine |-> NoSessionLine,
     lines |-> << Line(Only, TC(0), TC(1), "Muted") >>]

FileTwoTracks ==
    [fileName |-> "T", sessionLine |-> "Mix2",
     lines |-> << Line(Only, TC(0), TC(1), "Unmuted"),
                  Line(MkrPos, TC(0), TC(2), "Unmuted"),
                  Line(Only, TC(3), TC(4), "Muted") >>]

\* the file lists the user drops
SampleRuns == { <<FileA, FileB>>, <<FileMuted>>, <<FileTwoTracks>> }

\* the most records in the response of the batched lookup
MaxResp == 2

UnknownName == <<"?">>

\* the titles the batched lookup may report
TitleA == <<"A">>

TitleB == <<"B">>

SomeComposer == <<"Smith", "Jo">>

\* the records JSON.parse may return for the requested track names
ResponseRecords(trackNames) ==
    [originalName : { trackNames[k] : k \in 1..Len(trackNames) } \cup { UnknownName },
     title : { TitleA, TitleB },
     musicSource : MusicSources,
     composers : { Undefined, Array(<<>>), Array(<<SomeComposer>>) }]

Responses(trackNames) ==
    UNION { [1..n -> ResponseRecords(trackNames)] : n \in 0..MaxResp }

\* what a settled follow-up lookup leaves of composerText: nothing, or names
LookupTexts == { <<>>, <<SomeComposer>> }

runVars == <<files, fileIdx, trackClips, baseNameToOriginalName, newSummaries,
             trackDurations, enrichedData, lookups>>

InitApp ==
    /\ status = "idle"
    /\ results = <<>>
    /\ summaries = <<>>
    /\ errorMessage = ""
    /\ mkrCommissionedDatabase = ""
    /\ fetchState = "pending"
    /\ pc = "none"
    /\ files = <<>>
    /\ fileIdx = 0
    /\ trackClips = <<>>
    /\ baseNameToOriginalName = <<>>
    /\ newSummaries = <<>>
    /\ trackDurations = <<>>
    /\ enrichedData = <<>>
    /\ lookups = <<>>

\* .then(text => setMkrCommissionedDatabase(text))
FetchResolved ==
    /\ fetchState = "pending"
    /\ \E text \in ReferenceTexts : mkrCommissionedDatabase' = text
    /\ fetchState' = "ok"
    /\ UNCHANGED <<status, results, summaries, errorMessage, pc, runVars>>
    /\ UNCHANGED <<normVars, mergeVars>>

\* .catch(error => { setErrorMessage(...); setStatus('error'); })
FetchFailed ==
    /\ fetchState = "pending"
    /\ errorMessage' = FetchFailedMessage
    /\ status' = "error"
    /\ fetchState' = "failed"
    /\ UNCHANGED <<results, summaries, mkrCommissionedDatabase, pc, runVars>>
    /\ UNCHANGED <<normVars, mergeVars>>

\* the catch block of processFiles
Catch(message) ==
    /\ errorMessage' = message
    /\ status' = "error"
    /\ pc' = "none"

\* processFiles without its precondition: the run starts with no database
ProcessFilesSkipsPrecondition ==
    /\ status = "idle"
    /\ pc = "none"
    /\ mkrCommissionedDatabase = ""
    /\ \E fs \in { <<[fileName |-> "M", sessionLine |-> "", lines |-> <<>>]>> } : files' = fs
    /\ status' = "processing"
    /\ results' = <<>>
    /\ summaries' = <<>>
    /\ errorMessage' = ""
    /\ pc' = "reading"
    /\ fileIdx' = 1
    /\ UNCHANGED <<trackClips, baseNameToOriginalName, newSummaries, trackDurations,
                   enrichedData, lookups>>
    /\ UNCHANGED <<mkrCommissionedDatabase, fetchState>>
    /\ UNCHANGED <<normVars, mergeVars>>

\* processFiles throws before its first await: the database has not loaded
ProcessFilesNotLoaded ==
    /\ status = "idle"
    /\ pc = "none"
    /\ mkrCommissionedDatabase = ""
    /\ results' = <<>>
    /\ summaries' = <<>>
    /\ Catch(NotLoadedMessage)
    /\ UNCHANGED <<mkrCommissionedDatabase, fetchState, runVars>>
    /\ UNCHANGED <<normVars, mergeVars>>

\* processFiles up to the first await file.text()
ProcessFilesStart ==
    /\ status = "idle"
    /\ pc = "none"
    /\ mkrCommissionedDatabase # ""
    /\ \E fs \in SampleRuns : files' = fs
    /\ status' = "processing"
    /\ results' = <<>>
    /\ summaries' = <<>>
    /\ errorMessage' = ""
    /\ pc' = "reading"
    /\ fileIdx' = 1
    /\ trackClips' = <<>>
    /\ baseNameToOriginalName' = <<>>
    /\ newSummaries' = <<>>
    /\ trackDurations' = <<>>
    /\ enrichedData' = <<>>
    /\ lookups' = <<>>
    /\ UNCHANGED <<mkrCommissionedDatabase, fetchState>>
    /\ UNCHANGED <<normVars, mergeVars>>

\* the two maps after the lines of the file just read
MapsAfterFile ==
    ParseLines([trackClips |-> trackClips,
                baseNameToOriginalName |-> baseNameToOriginalName],
               files[fileIdx].lines)

SummariesAfterFile == Append(newSummaries, Summary(files[fileIdx]))

\* file.text() resolves and another file follows
FileTextResolvedNext ==
    /\ pc = "reading"
    /\ fileIdx < Len(files)
    /\ \E maps \in {MapsAfterFile} :
          /\ trackClips' = maps.trackClips
          /\ baseNameToOriginalName' = maps.baseNameToOriginalName
    /\ newSummaries' = SummariesAfterFile
    /\ fileIdx' = fileIdx + 1
    /\ UNCHANGED <<status, results, summaries, errorMessage, mkrCommissionedDatabase,
                   fetchState, pc, files, trackDurations, enrichedData, lookups>>
    /\ UNCHANGED <<normVars, mergeVars>>

\* the last file.text() resolves and no duration results, without the size check:
\* the batched request is sent for no track
FilesParsedWithoutEmptyCheck ==
    /\ pc = "reading"
    /\ fileIdx = Len(files)
    /\ \E maps \in {MapsAfterFile} :
          /\ ComputeDurations(maps) = <<>>
          /\ trackClips' = SortedInPlace(maps.trackClips)
          /\ baseNameToOriginalName' = maps.baseNameToOriginalName
    /\ newSummaries' = SummariesAfterFile
    /\ summaries' = SummariesAfterFile
    /\ trackDurations' = <<>>
    /\ pc' = "batch"
    /\ UNCHANGED <<status, results, errorMessage, mkrCommissionedDatabase, fetchState,
                   files, fileIdx, enrichedData, lookups>>
    /\ UNCHANGED <<normVars, mergeVars>>

\* the last file.text() resolves and no duration results: the run throws
FilesParsedEmpty ==
    /\ pc = "reading"
    /\ fileIdx = Len(files)
    /\ \E maps \in {MapsAfterFile} :
          /\ ComputeDurations(maps) = <<>>
          /\ trackClips' = SortedInPlace(maps.trackClips)
          /\ baseNameToOriginalName' = maps.baseNameToOriginalName
    /\ newSummaries' = SummariesAfterFile
    /\ summaries' = SummariesAfterFile
    /\ trackDurations' = <<>>
    /\ Catch(NoClipsMessage)
    /\ UNCHANGED <<results, mkrCommissionedDatabase, fetchState, files, fileIdx,
                   enrichedData, lookups>>
    /\ UNCHANGED <<normVars, mergeVars>>

\* the last file.text() resolves: the durations, then the batched request is sent
FilesParsedRequest ==
    /\ pc = "reading"
    /\ fileIdx = Len(files)
    /\ \E maps \in {MapsAfterFile} :
          \E durations \in {ComputeDurations(maps)} :
              /\ durations # <<>>
              /\ trackClips' = SortedInPlace(maps.trackClips)
              /\ baseNameToOriginalName' = maps.baseNameToOriginalName
              /\ trackDurations' = durations
    /\ newSummaries' = SummariesAfterFile
    /\ summaries' = SummariesAfterFile
    /\ pc' = "batch"
    /\ UNCHANGED <<status, results, errorMessage, mkrCommissionedDatabase, fetchState,
                   files, fileIdx, enrichedData, lookups>>
    /\ UNCHANGED <<normVars, mergeVars>>

\* file.text() rejects
FileTextRejected ==
    /\ pc = "reading"
    /\ Catch(ExternalErrorMessage)
    /\ UNCHANGED <<results, summaries, mkrCommissionedDatabase, fetchState, runVars>>
    /\ UNCHANGED <<normVars, mergeVars>>

\* setResults(finalResults); setStatus('success')
Finalize(data, lk) ==
    /\ results' = FinalResults(data, trackDurations)
    /\ status' = "success"
    /\ pc' = "none"
    /\ enrichedData' = data
    /\ lookups' = lk

\* the follow-up lookups of targets are issued and awaited as one batch
AwaitLookups(phase, data, lk, targets) ==
    /\ pc' = phase
    /\ enrichedData' = data
    /\ lookups' = Issue(lk, targets)
    /\ UNCHANGED <<status, results>>

\* processFiles from the end of the await in the phase from to its next await
Continue(from, data, lk) ==
    IF from = "batch" /\ LibraryTargets(data) # {}
    THEN AwaitLookups("library", data, lk, LibraryTargets(data))
    ELSE IF from \in {"batch", "library"} /\ CommercialTargets(data) # {}
         THEN AwaitLookups("commercial", data, lk, CommercialTargets(data))
         ELSE Finalize(data, lk)

\* the batched generateContent resolves and JSON.parse returns the records
BatchResolved ==
    /\ pc = "batch"
    /\ \E response \in Responses(MapKeys(trackDurations)) :
          Continue("batch", PostProcess(response),
                   [k \in 1..Len(response) |-> NoLookup])
    /\ UNCHANGED <<summaries, errorMessage, mkrCommissionedDatabase, fetchState, files,
                   fileIdx, trackClips, baseNameToOriginalName, newSummaries,
                   trackDurations>>
    /\ UNCHANGED <<normVars, mergeVars>>

\* the batched generateContent rejects, or JSON.parse throws
BatchRejected ==
    /\ pc = "batch"
    /\ Catch(ExternalErrorMessage)
    /\ UNCHANGED <<results, summaries, mkrCommissionedDatabase, fetchState, runVars>>
    /\ UNCHANGED <<normVars, mergeVars>>

\* the handler writing through a variable the lookups share: every track gets the names
WithComposersShared(data, k, text) ==
    IF text # <<>> THEN [j \in 1..Len(data) |-> [data[j] EXCEPT !.composers = Array(text)]]
    ELSE data

\* if (composerText) { track.composers = ... }
WithComposers(data, k, text) ==
    IF text # <<>> THEN [data EXCEPT ![k].composers = Array(text)] ELSE data

Settle(lk, k, outcome) == [lk EXCEPT ![k].state = outcome]

\* the lookups of the batch have all settled: Promise.all resolves
AfterSettle(data, lk) ==
    IF AllSettled(lk)
    THEN Continue(pc, data, lk)
    ELSE /\ enrichedData' = data
         /\ lookups' = lk
         /\ UNCHANGED <<status, results, pc>>

\* the .then handler of the lookup of track k
LookupResolved(k, text) ==
    /\ pc \in {"library", "commercial"}
    /\ lookups[k].state = "pending"
    /\ AfterSettle(WithComposers(enrichedData, k, text), Settle(lookups, k, "resolved"))
    /\ UNCHANGED <<summaries, errorMessage, mkrCommissionedDatabase, fetchState, files,
                   fileIdx, trackClips, baseNameToOriginalName, newSummaries,
                   trackDurations>>
    /\ UNCHANGED <<normVars, mergeVars>>

\* a lookup of track k without its .catch handler: Promise.all rejects
LookupRejectedAborts(k) ==
    /\ pc \in {"library", "commercial"}
    /\ lookups[k].state = "pending"
    /\ Catch(ExternalErrorMessage)
    /\ UNCHANGED <<results, summaries, mkrCommissionedDatabase, fetchState, runVars>>
    /\ UNCHANGED <<normVars, mergeVars>>

\* the .catch handler of the lookup of track k: the error is logged
LookupRejected(k) ==
    /\ pc \in {"library", "commercial"}
    /\ lookups[k].state = "pending"
    /\ AfterSettle(enrichedData, Settle(lookups, k, "rejected"))
    /\ UNCHANGED <<summaries, errorMessage, mkrCommissionedDatabase, fetchState, files,
                   fileIdx, trackClips, baseNameToOriginalName, newSummaries,
                   trackDurations>>
    /\ UNCHANGED <<normVars, mergeVars>>

\* handleReset: the button is rendered with status 'success' and with status 'error'
Reset ==
    /\ status \in {"success", "error"}
    /\ status' = "idle"
    /\ results' = <<>>
    /\ summaries' = <<>>
    /\ UNCHANGED <<errorMessage, mkrCommissionedDatabase, fetchState, pc, runVars>>
    /\ UNCHANGED <<normVars, mergeVars>>

Init == InitApp /\ NormIdle /\ MergeIdle

Next ==
    \/ FetchResolved
    \/ FetchFailed
    \/ ProcessFilesNotLoaded
    \/ ProcessFilesStart
    \/ FileTextResolvedNext
    \/ FilesParsedEmpty
    \/ FilesParsedRequest
    \/ FileTextRejected
    \/ BatchResolved
    \/ BatchRejected
    \/ \E k \in DOMAIN lookups, text \in LookupTexts : LookupResolved(k, text)
    \/ \E k \in DOMAIN lookups : LookupRejected(k)
    \/ Reset

Spec == Init /\ [][Next]_vars

(***************************************************************************)
(* One call of getBaseTrackName on every bounded raw clip name.            *)
(***************************************************************************)
InitNormOnly == InitNorm /\ InitApp /\ MergeIdle

NextNorm ==
    \/ NormCleanup
    \/ NormPass
    \/ NormReturn

SpecNorm == InitNormOnly /\ [][NextNorm]_vars

(***************************************************************************)
(* The merge of one identity's clips on every bounded clip list.           *)
(***************************************************************************)
InitMergeOnly == InitMerge /\ InitApp /\ NormIdle

NextMerge ==
    \/ MergeSort
    \/ MergeFirst
    \/ MergeLoop
    \/ MergeFlush

SpecMerge == InitMergeOnly /\ [][NextMerge]_vars

(***************************************************************************)
(* The parsing and aggregation of processFiles on every bounded list of    *)
(* files: the state after processFiles has started, and its steps up to    *)
(* the request of the batched lookup.                                      *)
(***************************************************************************)
\* the most clip lines in all the files of one run
MaxLines == 3

AggNames == { OnlyV2, OnlyV2SpaceWav, Only }

\* the start and end timecodes of the bounded clip lines; start <= end is not enforced
AggIntervals == { <<TC(0), TC(1)>>, <<TC(2), TC(0)>>, <<TC(2), TC(3)>> }

AggLines ==
    { Line(n, iv[1], iv[2], st) :
        n \in AggNames, iv \in AggIntervals, st \in {"Muted", "Unmuted"} }

\* the file that holds line number j when the lines q are cut after the positions cuts
FileOfLine(cuts, j) == 1 + Cardinality({ c \in cuts : c < j })

\* the files that hold the lines q, cut after the positions cuts
MakeFiles(q, cuts) ==
    [f \in 1..(Cardinality(cuts) + 1) |->
        LET mine == { j \in 1..Len(q) : FileOfLine(cuts, j) = f }
            lo == CHOOSE j \in mine : \A x \in mine : j <= x
            hi == CHOOSE j \in mine : \A x \in mine : j >= x
        IN  [fileName |-> f, sessionLine |-> NoSessionLine, lines |-> SubSeq(q, lo, hi)]]

\* the end-to-end scenario: file A, then file B
ScenarioFiles == <<FileA, FileB>>

\* processFiles has started on at most MaxLines clip lines spread over files,
\* or on the end-to-end scenario
InitAgg ==
    /\ files \in UNION { { MakeFiles(q, cuts) : cuts \in SUBSET (1..(Len(q) - 1)) } :
                              q \in UNION { [1..n -> AggLines] : n \in 1..MaxLines } }
                    \cup { ScenarioFiles }
    /\ status = "processing"
    /\ results = <<>>
    /\ summaries = <<>>
    /\ errorMessage = ""
    /\ mkrCommissionedDatabase = "MKR database"
    /\ fetchState = "ok"
    /\ pc = "reading"
    /\ fileIdx = 1
    /\ trackClips = <<>>
    /\ baseNameToOriginalName = <<>>
    /\ newSummaries = <<>>
    /\ trackDurations = <<>>
    /\ enrichedData = <<>>
    /\ lookups = <<>>

InitAggOnly == InitAgg /\ NormIdle /\ MergeIdle

NextAgg ==
    \/ FileTextResolvedNext
    \/ FilesParsedEmpty
    \/ FilesParsedRequest

SpecAgg == InitAggOnly /\ [][NextAgg]_vars

(***************************************************************************)
(* The decoding of the timecode tokens of a run: processFiles has started  *)
(* on clip lines whose tokens range over bounded sets of the strings that  *)
(* clipRegex captures, and runs up to the request of the batched lookup.   *)
(***************************************************************************)
\* the most colons of a token with freely placed colons
MaxColons == 4

TokenLength == 11

\* the digits of such a token: zeros, or zeros and the last four digits 1 2 3 4
DigitFills ==
    { [p \in 1..TokenLength |-> "0"],
      [p \in 1..TokenLength |-> IF p <= 7 THEN "0" ELSE Digits[p - 6]] }

\* the tokens with at most MaxColons colons, at any positions
PlacedTokens ==
    { [p \in 1..TokenLength |-> IF p \in colons THEN ":" ELSE fill[p]] :
        colons \in { c \in SUBSET (1..TokenLength) : Cardinality(c) <= MaxColons },
        fill \in DigitFills }

\* the tokens hh:mm:ss:ff
CanonicalTokens ==
    { <<h[1], h[2], ":", m[1], m[2], ":", sec[1], sec[2], ":", f[1], f[2]>> :
        h \in { <<"0","0">>, <<"0","1">>, <<"2","3">> },
        m \in { <<"0","0">>, <<"5","9">> },
        sec \in { <<"0","0">>, <<"5","9">> },
        f \in { <<"0","0">>, <<"2","4">>, <<"2","5">>, <<"9","9">> } }

\* 00:00:00000 has three fields, 0:0:0:0:000 has five
ThreeFieldToken == <<"0","0",":","0","0",":","0","0","0","0","0">>

FiveFieldToken == <<"0",":","0",":","0",":","0",":","0","0","0">>

FrameField25Token == <<"0","0",":","0","0",":","0","0",":","2","5">>

MalformedTokens == { ThreeFieldToken, FiveFieldToken }

PairedTokens == MalformedTokens \cup { TC(2), FrameField25Token }

TimecodeFile(lines) ==
    [fileName |-> "TC", sessionLine |-> NoSessionLine, lines |-> lines]

\* processFiles has started on one clip line with one token of the bounded sets, or
\* on a clip line with well-formed tokens followed, in the same file or in the next
\* one, by a clip line of the same identity with two of the paired tokens
InitTimecode ==
    /\ files \in
          { <<TimecodeFile(<<Line(Only, tok, other, "Unmuted")>>)>> :
              tok \in CanonicalTokens \cup PlacedTokens,
              other \in { TC(0), ThreeFieldToken } }
          \cup
          { <<TimecodeFile(<<Line(Only, other, tok, "Unmuted")>>)>> :
              tok \in CanonicalTokens \cup PlacedTokens,
              other \in { TC(0), ThreeFieldToken } }
          \cup
          { <<TimecodeFile(<<Line(Only, TC(1), TC(3), "Unmuted"),
                             Line(Only, tok, other, st)>>)>> :
              tok \in PairedTokens, other \in PairedTokens, st \in {"Muted", "Unmuted"} }
          \cup
          { <<TimecodeFile(<<Line(Only, TC(1), TC(3), st)>>),
              TimecodeFile(<<Line(Only, tok, other, st)>>)>> :
              tok \in PairedTokens, other \in PairedTokens, st \in {"Muted", "Unmuted"} }
    /\ status = "processing"
    /\ results = <<>>
    /\ summaries = <<>>
    /\ errorMessage = ""
    /\ mkrCommissionedDatabase = "MKR database"
    /\ fetchState = "ok"
    /\ pc = "reading"
    /\ fileIdx = 1
    /\ trackClips = <<>>
    /\ baseNameToOriginalName = <<>>
    /\ newSummaries = <<>>
    /\ trackDurations = <<>>
    /\ enrichedData = <<>>
    /\ lookups = <<>>

InitTimecodeOnly == InitTimecode /\ NormIdle /\ MergeIdle

SpecTimecode == InitTimecodeOnly /\ [][NextAgg]_vars

(***************************************************************************)
(* The reference interval merge: the intervals in ascending order of their *)
(* start frames (equal starts in list order), folded into the list of      *)
(* windows, and the sum of the windows' lengths.                           *)
(***************************************************************************)
\* the position of interval j of cs in the ascending order
RefRank(cs, j) ==
    1 + Cardinality({ k \in 1..Len(cs) :
            \/ cs[k].startTimeFrames < cs[j].startTimeFrames
            \/ (cs[k].startTimeFrames = cs[j].startTimeFrames /\ k < j) })

RefSorted(cs) ==
    [p \in 1..Len(cs) |-> cs[CHOOSE j \in 1..Len(cs) : RefRank(cs, j) = p]]

\* the windows after the first n intervals of the sorted list
RECURSIVE RefWindows(_, _)
RefWindows(sorted, n) ==
    IF n = 1
    THEN << [from |-> sorted[1].startTimeFrames, to |-> sorted[1].endTimeFrames] >>
    ELSE LET ws == RefWindows(sorted, n - 1)
             last == ws[Len(ws)]
             next == sorted[n]
         IN  IF next.startTimeFrames <= last.to + 1
             THEN [ws EXCEPT ![Len(ws)].to =
                        IF next.endTimeFrames > last.to THEN next.endTimeFrames ELSE last.to]
             ELSE Append(ws, [from |-> next.startTimeFrames, to |-> next.endTimeFrames])

RECURSIVE SumOfLengths(_)
SumOfLengths(ws) ==
    IF ws = <<>> THEN 0
    ELSE (ws[1].to - ws[1].from) + SumOfLengths(Tail(ws))

RefTotal(cs) == SumOfLengths(RefWindows(RefSorted(cs), Len(cs)))

\* C1: for every list of one identity's clip intervals, the sort puts them in
\* ascending order of start frame and the total the merge ends with is the sum of
\* (windowEnd - windowStart) over the windows of the reference fold, the last
\* window included; [0,99],[102,199] stays two windows and totals (99-0)+(199-102).
MergeEqualsReferenceMerge ==
    [][ /\ (mpc = "sort" /\ mpc' = "first" => clips' = RefSorted(clips))
        /\ (mpc' = "done" =>
                /\ totalDurationFrames' = RefTotal(clips')
                /\ (clips' = GapTwoExample =>
                        /\ totalDurationFrames' = (99 - 0) + (199 - 102)
                        /\ Len(RefWindows(clips', Len(clips'))) = 2
                        /\ currentStart' = 102)) ]_vars

\* a merge of three clips has ended: the second clip joined the first window and
\* the third opened a new one
MergedThenNewWindowDone ==
    /\ mpc = "done"
    /\ Len(clips) = 3
    /\ clips[2].startTimeFrames <= clips[1].endTimeFrames + 1
    /\ currentStart = clips[3].startTimeFrames
    /\ currentStart > clips[1].startTimeFrames

\* C2 as stated: [0,99],[100,199] and [0,99],[101,199] each end as one merged
\* window with a total of 200 frames.
AdjacentAndGapOneTotal200 ==
    (mpc = "done" /\ clips \in { AdjacentExample, GapOneExample }) =>
        /\ totalDurationFrames = 200
        /\ currentStart = 0
        /\ currentEnd = 199

\* C2, amended: [0,99],[100,199] ends as the one window [0,199] with a total of
\* 199 frames; [0,99],[101,199] ends as two windows with a total of 99 + 98 frames.
AdjacentTotal199GapOneTotal197 ==
    mpc = "done" =>
        /\ (clips = AdjacentExample =>
                /\ totalDurationFrames = 199
                /\ currentStart = 0
                /\ currentEnd = 199)
        /\ (clips = GapOneExample =>
                /\ totalDurationFrames = 99 + 98
                /\ currentStart = 101
                /\ currentEnd = 199)

\* the merge of one of the two examples has ended
ExamplesMerged ==
    /\ mpc = "done"
    /\ clips \in { AdjacentExample, GapOneExample }
    /\ totalDurationFrames \in { 199, 197 }

\* C10: getBaseTrackName is idempotent: applying it to the name a call has
\* returned gives that name again, for every raw clip name.
NormalizationIdempotent ==
    npc = "done" => getBaseTrackName(base) = base

\* no line of the files of the run is an unmuted clip record
ZeroUnmuted(fs) ==
    \A f \in 1..Len(fs) : \A l \in 1..Len(fs[f].lines) : fs[f].lines[l].state # "Unmuted"

\* a run on zero unmuted records leaves the reading of the files into the error
ZeroUnmutedRunEnds ==
    (pc = "reading" /\ ZeroUnmuted(files) /\ pc' # "reading") =>
        /\ status' = "error"
        /\ pc' = "none"
        /\ errorMessage' \in { NoClipsMessage, ExternalErrorMessage }
        /\ (newSummaries' # newSummaries => errorMessage' = NoClipsMessage)
        /\ results' = <<>>

\* C6: a run whose files hold zero unmuted clip records never sends an enrichment
\* request and never reports: it leaves the reading of the files only into status
\* 'error' with a message for the user (the empty-result message when every file was
\* read), with results empty and no lookup issued.
ZeroUnmutedEndsInEmptyResultError ==
    /\ [](ZeroUnmuted(files) /\ files # <<>> =>
            /\ pc \in {"reading", "none"}
            /\ status \in {"processing", "error", "idle"}
            /\ (pc = "reading" <=> status = "processing")
            /\ results = <<>>
            /\ trackDurations = <<>>
            /\ enrichedData = <<>>
            /\ lookups = <<>>)
    /\ [][ZeroUnmutedRunEnds]_vars

\* the run on the file with only a muted clip has ended in the empty-result error
EmptyResultErrorReached ==
    /\ files = <<FileMuted>>
    /\ pc = "none"
    /\ status = "error"
    /\ errorMessage = NoClipsMessage
    /\ results = <<>>

\* the report holds every record of data, each with its composers
AllRecordsReported(report, data) ==
    /\ Len(report) = Len(data)
    /\ \E perm \in [1..Len(data) -> 1..Len(data)] :
          /\ \A a, b \in 1..Len(data) : perm[a] = perm[b] => a = b
          /\ \A k \in 1..Len(data) :
                /\ report[perm[k]].originalName = data[k].originalName
                /\ report[perm[k]].title = data[k].title
                /\ report[perm[k]].musicSource = data[k].musicSource
                /\ report[perm[k]].composers = data[k].composers

\* a step taken while lookups are awaited
LookupStepKeepsRun ==
    pc \in {"library", "commercial"} =>
        /\ status' # "error"
        /\ pc' \in {"library", "commercial", "none"}
        /\ (pc' = "none" =>
                /\ status' = "success"
                /\ AllRecordsReported(results', enrichedData'))
        /\ DOMAIN lookups' = DOMAIN lookups
        /\ Len(enrichedData') = Len(enrichedData)
        /\ \A k \in DOMAIN lookups :
                (lookups'[k].state = "rejected" \/ lookups'[k] = lookups[k]) =>
                    enrichedData'[k] = enrichedData[k]

\* C7: once the batched lookup has succeeded, no rejection of a follow-up lookup
\* aborts the run: while lookups are awaited one of them is outstanding and the
\* status is 'processing', the run leaves the lookups only into status 'success'
\* with every record in the report, and a record whose lookup is outstanding or
\* rejected keeps its composers field.
LookupFailuresNeverAbort ==
    /\ [](pc \in {"library", "commercial"} =>
            /\ status = "processing"
            /\ \E k \in DOMAIN lookups : lookups[k].state = "pending")
    /\ [][LookupStepKeepsRun]_vars

\* a run has succeeded although one of its lookups rejected, and another resolved
SuccessDespiteRejectedLookup ==
    /\ status = "success"
    /\ \E k, j \in DOMAIN lookups :
          /\ lookups[k].state = "rejected"
          /\ lookups[j].state = "resolved"
          /\ NoComposers(enrichedData[k])
    /\ AllRecordsReported(results, enrichedData)

\* a step that is a processing attempt: the status leaves 'idle' and it is not the
\* startup fetch that settles
ProcessingAttempt == status = "idle" /\ status' # "idle" /\ fetchState' = fetchState

\* an attempt while the database is empty
NotLoadedAttemptFails ==
    (ProcessingAttempt /\ mkrCommissionedDatabase = "") =>
        /\ status' = "error"
        /\ errorMessage' = NotLoadedMessage
        /\ results' = <<>>
        /\ pc' = "none"
        /\ UNCHANGED runVars

\* a run gets past the precondition
RunStartsOnlyLoaded ==
    (pc = "none" /\ pc' # "none") =>
        fetchState = "ok" /\ mkrCommissionedDatabase # ""

\* C8: while the reference data is not loaded, every processing attempt ends at once
\* in status 'error' with the not-loaded message and empty results, aggregates no
\* file and issues no request; a run is outstanding, or has reported, only where the
\* fetch has succeeded with a non-empty text.
NotLoadedAttemptsEndInError ==
    /\ []((pc # "none" \/ status \in {"processing", "success"}) =>
            fetchState = "ok" /\ mkrCommissionedDatabase # "")
    /\ [](fetchState # "ok" =>
            /\ mkrCommissionedDatabase = ""
            /\ results = <<>>
            /\ files = <<>> /\ trackClips = <<>> /\ trackDurations = <<>>
            /\ enrichedData = <<>> /\ lookups = <<>>)
    /\ [][NotLoadedAttemptFails]_vars
    /\ [][RunStartsOnlyLoaded]_vars

\* a processing attempt after the fetch failed has ended in the not-loaded error
NotLoadedErrorAfterFailedFetch ==
    /\ fetchState = "failed"
    /\ status = "error"
    /\ errorMessage = NotLoadedMessage
    /\ results = <<>>
    /\ pc = "none"

\* C9: in every state with status 'error' the results are empty, the summaries of
\* the failed run are not retained and reset is available; no state has status
\* 'processing' with no run outstanding.
ErrorStatesRetainNothing ==
    /\ (status = "error" =>
            /\ results = <<>>
            /\ summaries = <<>>
            /\ ENABLED Reset)
    /\ (status = "processing" => pc # "none")

(***************************************************************************)
(* The aggregation of a list of files as a whole, for the comparison of    *)
(* two runs.                                                               *)
(***************************************************************************)
\* the total of every identity of the map of clips
IdentityTotals(tc) == { <<tc[n].key, MergeTotal(tc[n].value)>> : n \in 1..Len(tc) }

\* the totals of the identities of a run on the files fs
TotalsOfFiles(fs) == IdentityTotals(ParseFiles(fs, Len(fs)).trackClips)

ArrivalOrders(n) == { p \in [1..n -> 1..n] : \A a, b \in 1..n : p[a] = p[b] => a = b }

FilesInOrder(fs, p) == [k \in 1..Len(fs) |-> fs[p[k]]]

\* C3: the total duration aggregated for each canonical identity is the same for
\* every arrival order of the files of the run.
FileOrderNeverChangesTotals ==
    pc = "batch" =>
        \A p \in ArrivalOrders(Len(files)) :
            TotalsOfFiles(FilesInOrder(files, p)) = IdentityTotals(trackClips)

\* the files with every Muted line removed
WithoutMuted(fs) ==
    [f \in 1..Len(fs) |->
        [fs[f] EXCEPT !.lines = SelectSeq(fs[f].lines, LAMBDA l : l.state # "Muted")]]

\* the canonical identities with at least one unmuted clip line in the files
LinesInState(fs, st) ==
    { m \in (1..Len(fs)) \X (1..MaxLines) :
        m[2] <= Len(fs[m[1]].lines) /\ fs[m[1]].lines[m[2]].state = st }

UnmutedIdentities(fs) ==
    { BaseNameOf(fs[m[1]].lines[m[2]].clipName) : m \in LinesInState(fs, "Unmuted") }

MutedLines(fs) == LinesInState(fs, "Muted")

\* C4: when the files of a run are parsed, the emitted tracks, their display names
\* and their total durations are those of the same files with every Muted line
\* removed, and the identities collected are exactly those with an unmuted line.
MutedRecordsNeverInfluence ==
    (pc # "reading" /\ files # <<>>) =>
        LET unmuted == WithoutMuted(files)
            maps == ParseFiles(unmuted, Len(unmuted))
        IN  /\ trackDurations = ComputeDurations(maps)
            /\ baseNameToOriginalName = maps.baseNameToOriginalName
            /\ trackClips = SortedInPlace(maps.trackClips)
            /\ { trackClips[n].key : n \in 1..Len(trackClips) } = UnmutedIdentities(files)
            /\ Len(trackDurations) <= Cardinality(UnmutedIdentities(files))

\* a run has aggregated files that hold a Muted line of an identity with no unmuted
\* line, next to an unmuted line of another identity
MutedIdentityNotEmitted ==
    /\ pc = "batch"
    /\ trackDurations # <<>>
    /\ \E m \in MutedLines(files) :
          BaseNameOf(files[m[1]].lines[m[2]].clipName) \notin UnmutedIdentities(files)

\* C5: after aggregation the duration map has one entry per canonical identity with
\* an unmuted clip, and the entry of each identity carries the merged total of that
\* identity's clips.
OneRecordPerIdentity ==
    pc = "batch" =>
        /\ Len(trackDurations) = Cardinality(UnmutedIdentities(files))
        /\ \A n \in 1..Len(trackClips) :
              LET originalName == MapGet(baseNameToOriginalName, trackClips[n].key)
              IN  /\ MapHas(trackDurations, originalName)
                  /\ MapGet(trackDurations, originalName) = MergeTotal(trackClips[n].value)

(***************************************************************************)
(* The display name of an identity.                                        *)
(***************************************************************************)
\* the number of files whose lines the run has processed
FilesProcessed == IF pc = "reading" THEN fileIdx - 1 ELSE Len(files)

\* the unmuted lines of the identity b among the first n files
SightingsOf(b, n) ==
    { m \in LinesInState(files, "Unmuted") :
        m[1] <= n /\ BaseNameOf(files[m[1]].lines[m[2]].clipName) = b }

\* the first of the lines ms in processing order: file order, then line order
FirstInOrder(ms) ==
    CHOOSE m \in ms : \A x \in ms : m[1] < x[1] \/ (m[1] = x[1] /\ m[2] <= x[2])

\* every display name is the clean name of the first unmuted line of its identity
DisplayNamesAreFirstSeen ==
    /\ { baseNameToOriginalName[n].key : n \in 1..Len(baseNameToOriginalName) }
          = { b \in UnmutedIdentities(files) : SightingsOf(b, FilesProcessed) # {} }
    /\ \A n \in 1..Len(baseNameToOriginalName) :
          LET seen == SightingsOf(baseNameToOriginalName[n].key, FilesProcessed)
              first == FirstInOrder(seen)
          IN  /\ seen # {}
              /\ baseNameToOriginalName[n].value
                    = cleanTrackName(files[first[1]].lines[first[2]].clipName)

\* a step of the run keeps every display name it finds
DisplayNamesAreKept ==
    /\ Len(baseNameToOriginalName') >= Len(baseNameToOriginalName)
    /\ \A n \in 1..Len(baseNameToOriginalName) :
          baseNameToOriginalName'[n] = baseNameToOriginalName[n]

\* C11: the display name recorded for a canonical identity is the clean display name
\* of the first unmuted clip of that identity in processing order (file order, then
\* line order), and no later clip of the identity, in the same file or in a later
\* one, overwrites it.
DisplayNameIsFirstSeenAndKept ==
    /\ []DisplayNamesAreFirstSeen
    /\ [][DisplayNamesAreKept]_vars

\* the files are parsed, and an identity has a later unmuted clip, in a later file,
\* whose clean name is not the display name recorded
LaterSightingDidNotOverwrite ==
    /\ pc = "batch"
    /\ \E n \in 1..Len(baseNameToOriginalName) :
          \E m \in SightingsOf(baseNameToOriginalName[n].key, Len(files)) :
              /\ m[1] > 1
              /\ CleanNameOf(files[m[1]].lines[m[2]].clipName)
                    # baseNameToOriginalName[n].value

(***************************************************************************)
(* The reference decoding of a timecode token: the fields are the maximal  *)
(* runs of digits between the colons, and the value of a field is the sum  *)
(* of its digits weighted by the powers of ten.                            *)
(***************************************************************************)
FieldCount(tok) == 1 + Cardinality({ p \in 1..Len(tok) : tok[p] = ":" })

\* the positions of the digits of field number k
FieldPositions(tok, k) ==
    { p \in 1..Len(tok) :
        /\ tok[p] # ":"
        /\ Cardinality({ q \in 1..(p - 1) : tok[q] = ":" }) = k - 1 }

RECURSIVE PositionalSum(_, _, _)
PositionalSum(tok, all, rest) ==
    IF rest = {} THEN 0
    ELSE LET p == CHOOSE x \in rest : TRUE
             digit == DigitValue(tok[p])
             weight == Cardinality({ q \in all : q > p })
         IN  (IF digit = 0 THEN 0 ELSE digit * 10^weight)
                + PositionalSum(tok, all, rest \ {p})

FieldValue(tok, k) == PositionalSum(tok, FieldPositions(tok, k), FieldPositions(tok, k))

\* the token splits into exactly 4 integer fields
FourIntegerFields(tok) ==
    FieldCount(tok) = 4 /\ \A k \in 1..4 : FieldPositions(tok, k) # {}

\* v is what the decoding of tok is to return
DecodesTo(tok, v) ==
    /\ FourIntegerFields(tok) =>
          v = ((FieldValue(tok, 1) * 3600 + FieldValue(tok, 2) * 60 + FieldValue(tok, 3)) * 25)
                 + FieldValue(tok, 4)
    /\ FieldCount(tok) # 4 => v = 0

\* the clips collected for the identity b are the decoded unmuted lines of b
ClipsAreDecodedLines(b, collected) ==
    LET seen == SightingsOf(b, FilesProcessed)
    IN  /\ Len(collected) = Cardinality(seen)
        /\ \E at \in [1..Len(collected) -> seen] :
              /\ \A x, y \in 1..Len(collected) : at[x] = at[y] => x = y
              /\ \A x \in 1..Len(collected) :
                    LET line == files[at[x][1]].lines[at[x][2]]
                    IN  /\ DecodesTo(line.startTime, collected[x].startTimeFrames)
                        /\ DecodesTo(line.endTime, collected[x].endTimeFrames)

\* C12: timecodeToFrames returns ((h*3600+m*60+s)*25)+f for every token that splits
\* on ':' into exactly 4 integer fields (a frame field of 25 or more converts
\* linearly) and 0 for every token whose field count is not 4; a clip line with a
\* malformed token does not abort the run: its clip is aggregated with the value 0
\* for that timecode, and the run ends in an error only where no line is unmuted.
TimecodesDecodeLinearlyOrToZero ==
    /\ \A n \in 1..Len(trackClips) :
          ClipsAreDecodedLines(trackClips[n].key, trackClips[n].value)
    /\ { trackClips[n].key : n \in 1..Len(trackClips) }
          = { b \in UnmutedIdentities(files) : SightingsOf(b, FilesProcessed) # {} }
    /\ (status = "error" => ZeroUnmuted(files) /\ errorMessage = NoClipsMessage)
    /\ (pc # "reading" /\ ~ZeroUnmuted(files) =>
          /\ pc = "batch"
          /\ status = "processing"
          /\ Len(trackDurations) = 1
          /\ trackDurations[1].value = MergeTotal(trackClips[1].value))

\* the files are parsed and the batched request is sent for a run with an unmuted
\* line whose start token has the frame field 25 and whose end token is malformed:
\* its clip starts at frame 25 and ends at frame 0
MalformedTokenAggregatedAsZero ==
    /\ pc = "batch"
    /\ status = "processing"
    /\ \E m \in LinesInState(files, "Unmuted") :
          /\ files[m[1]].lines[m[2]].startTime = FrameField25Token
          /\ files[m[1]].lines[m[2]].endTime \in MalformedTokens
    /\ \E x \in 1..Len(trackClips[1].value) :
          trackClips[1].value[x] = Clip(25, 0)

(***************************************************************************)
(* The end-to-end scenario: file A, then file B.                           *)
(***************************************************************************)
Theme == <<"T","h","e","m","e">>

\* the run on the scenario has aggregated its files
ScenarioAggregated ==
    /\ files = ScenarioFiles
    /\ pc \in {"batch", "library", "commercial"} \/ status = "success"

Outcomes ==
    { [kind |-> "rejected", text |-> <<>>] }
        \cup { [kind |-> "resolved", text |-> t] : t \in LookupTexts }

\* the records and the lookups after the lookup of record k has settled with outcome
AfterSettlement(state, k, outcome) ==
    IF outcome.kind = "rejected"
    THEN [data |-> state.data, lk |-> Settle(state.lk, k, "rejected")]
    ELSE [data |-> WithComposers(state.data, k, outcome.text),
          lk |-> Settle(state.lk, k, "resolved")]

\* the lookups settle in the order given
RECURSIVE SettledInOrder(_, _, _)
SettledInOrder(state, order, outcome) ==
    IF order = <<>> THEN state
    ELSE AfterSettlement(SettledInOrder(state, Take(order, Len(order) - 1), outcome),
                         order[Len(order)], outcome[order[Len(order)]])

Pending == { k \in DOMAIN lookups : lookups[k].state = "pending" }

\* the orders in which the lookups ks may complete
CompletionOrders(ks) ==
    { order \in [1..Cardinality(ks) -> ks] :
        \A x, y \in 1..Cardinality(ks) : order[x] = order[y] => x = y }

\* whatever the outcomes of the outstanding lookups, every completion order leaves
\* the same records, the same lookups and so the same report
CompletionOrderIsIrrelevant ==
    pc \in {"library", "commercial"} =>
        \A outcome \in [Pending -> Outcomes] :
            \A first, second \in CompletionOrders(Pending) :
                LET now == [data |-> enrichedData, lk |-> lookups]
                    one == SettledInOrder(now, first, outcome)
                    other == SettledInOrder(now, second, outcome)
                IN  /\ one = other
                    /\ FinalResults(one.data, trackDurations)
                          = FinalResults(other.data, trackDurations)

\* every record is the target of at most one lookup, of the batch of its source
LookupsTargetOnce ==
    /\ DOMAIN lookups = DOMAIN enrichedData
    /\ \A k \in DOMAIN lookups :
          /\ lookups[k].issued <= 1
          /\ (lookups[k].issued = 0 <=> lookups[k].state = "none")
          /\ lookups[k].issued = 1 => enrichedData[k].musicSource \in {Library, Commercial}
          /\ lookups[k].state = "pending" =>
                /\ NoComposers(enrichedData[k])
                /\ pc \in {"library", "commercial"}
                /\ (pc = "library" <=> enrichedData[k].musicSource = Library)
                /\ (pc = "commercial" <=> enrichedData[k].musicSource = Commercial)

\* a run reports only after the lookups of both batches have been issued and settled
SuccessAfterEveryLookup ==
    status = "success" =>
        /\ AllSettled(lookups)
        /\ \A k \in DOMAIN lookups :
              (enrichedData[k].musicSource \in {Library, Commercial}
                  /\ NoComposers(enrichedData[k])) => lookups[k].issued = 1
        /\ results = FinalResults(enrichedData, trackDurations)

\* a step taken while lookups are awaited settles one lookup and changes at most the
\* composers of its record; lookups are issued only for the next batch, when the
\* last lookup of this one settles
LookupStepIsLocal ==
    pc \in {"library", "commercial"} =>
        /\ DOMAIN lookups' = DOMAIN lookups
        /\ DOMAIN enrichedData' = DOMAIN enrichedData
        /\ \E k \in Pending :
              /\ lookups'[k].issued = 1
              /\ \E outcome \in Outcomes :
                    LET after == AfterSettlement([data |-> enrichedData, lk |-> lookups],
                                                 k, outcome)
                    IN  /\ enrichedData' = after.data
                        /\ lookups'[k] = after.lk[k]
              /\ [enrichedData'[k] EXCEPT !.composers = enrichedData[k].composers]
                    = enrichedData[k]
              /\ \A j \in DOMAIN lookups \ {k} :
                    /\ enrichedData'[j] = enrichedData[j]
                    /\ lookups'[j] # lookups[j] =>
                          /\ Pending = {k}
                          /\ pc = "library" /\ pc' = "commercial"
                          /\ lookups[j] = NoLookup
                          /\ lookups'[j] = [issued |-> 1, state |-> "pending"]
              /\ (pc' # pc \/ status' # status) => Pending = {k}

\* C14: the follow-up lookups of one batch are independent: for every completion
\* order of the outstanding lookups the records, and so the final report, are the
\* same; the settlement of a lookup changes only the composers field of the record
\* it was issued for; each record is the target of at most one lookup per run (the
\* library and the commercial batch are disjoint, commissioned records get none,
\* nothing is retried); and status becomes 'success' only after every issued lookup
\* of both batches has settled.
LookupsAreIndependent ==
    /\ [](CompletionOrderIsIrrelevant /\ LookupsTargetOnce /\ SuccessAfterEveryLookup)
    /\ [][LookupStepIsLocal]_vars

\* a run has reported after two lookups of one batch settled, one resolved with
\* names and one rejected
TwoLookupsOfOneBatchSettled ==
    /\ status = "success"
    /\ \E k, j \in DOMAIN lookups :
          /\ k # j
          /\ enrichedData[k].musicSource = enrichedData[j].musicSource
          /\ lookups[k].state = "resolved"
          /\ ~NoComposers(enrichedData[k])
          /\ lookups[j].state = "rejected"
          /\ NoComposers(enrichedData[j])
    /\ results = FinalResults(enrichedData, trackDurations)

\* C15: every emitted track's total duration is a non-negative frame count after any
\* sequence of parsed clip records, including records whose end frame is smaller
\* than their start frame.
TotalsAreNonNegative ==
    \A n \in 1..Len(trackDurations) : trackDurations[n].value >= 0

=============================================================================
